---- MODULE Spec2Model ----
(***************************************************************************)
(* A model of flute's setup.py: the version extractor, the nvcc version    *)
(* probe, the version string assembly, the extension descriptor, the       *)
(* requirements loader and the order in which the script runs them.        *)
(*                                                                         *)
(* Python strings are modelled as sequences of one-character strings, so   *)
(* that strip(), split(), startswith(), the regular expression of          *)
(* find_version and the version parser are computed character by           *)
(* character, as the interpreter computes them.                            *)
(***************************************************************************)
EXTENDS Integers, Sequences, FiniteSets, TLC

(***************************************************************************)
(* Bounds of the model.                                                    *)
(***************************************************************************)
\* lines of a generated version file
MaxVerLines == 2
\* whitespace-separated tokens of a generated nvcc output
MaxTokens == 3
\* entries of a generated listing of the csrc directory
MaxDirLen == 3
\* lines of a generated requirements.txt
MaxReqLines == 3
\* frames the interpreter allows before it raises RecursionError; it stands
\* for sys.getrecursionlimit() and only has to exceed the number of files
RecursionLimit == 5

(***************************************************************************)
(* Python's str operations.                                                *)
(***************************************************************************)
Whitespace == {" ", "\n", "\t"}

Digits == <<"0", "1", "2", "3", "4", "5", "6", "7", "8", "9">>

IsDigit(c) == \E d \in 1..10 : Digits[d] = c

\* the letters are those of the local version segments the model uses
IsAlnum(c) == IsDigit(c) \/ c \in {"c", "u"}

\* s.startswith(p)
StartsWith(s, p) == Len(s) >= Len(p) /\ SubSeq(s, 1, Len(p)) = p

\* s.endswith(p)
EndsWith(s, p) == Len(s) >= Len(p) /\ SubSeq(s, Len(s) - Len(p) + 1, Len(s)) = p

RECURSIVE LStrip(_)
LStrip(s) ==
    IF s # <<>> /\ s[1] \in Whitespace THEN LStrip(Tail(s)) ELSE s

RECURSIVE RStrip(_)
RStrip(s) ==
    IF s # <<>> /\ s[Len(s)] \in Whitespace
    THEN RStrip(SubSeq(s, 1, Len(s) - 1))
    ELSE s

\* s.strip()
Strip(s) == LStrip(RStrip(s))

\* the first index of s that holds a member of cs at or after position from,
\* Len(s) + 1 when there is none
FirstIn(s, cs, from) ==
    IF \E i \in from..Len(s) : s[i] \in cs
    THEN CHOOSE i \in from..Len(s) :
             s[i] \in cs /\ \A j \in from..(i - 1) : s[j] \notin cs
    ELSE Len(s) + 1

\* Split with a fault: empty pieces are dropped
RECURSIVE SplitDropEmpty(_, _)
SplitDropEmpty(s, sep) ==
    LET i == FirstIn(s, {sep}, 1)
        head == IF i = 1 THEN <<>> ELSE <<SubSeq(s, 1, i - 1)>>
    IN  IF i > Len(s) THEN (IF s = <<>> THEN <<>> ELSE <<s>>)
        ELSE head \o SplitDropEmpty(SubSeq(s, i + 1, Len(s)), sep)

\* s.split(sep) for a one-character separator: empty pieces are kept, and
\* the result always holds at least one piece
RECURSIVE Split(_, _)
Split(s, sep) ==
    LET i == FirstIn(s, {sep}, 1)
    IN  IF i > Len(s) THEN <<s>>
        ELSE <<SubSeq(s, 1, i - 1)>> \o Split(SubSeq(s, i + 1, Len(s)), sep)

\* s.split(): runs of whitespace separate the tokens, no token is empty
RECURSIVE SplitWs(_)
SplitWs(s) ==
    LET t == LStrip(s)
        n == FirstIn(t, Whitespace, 1)
    IN  IF t = <<>> THEN <<>>
        ELSE <<SubSeq(t, 1, n - 1)>> \o SplitWs(SubSeq(t, n, Len(t)))

\* ListIndex with a fault: the last position of x
ListIndexLast(l, x) ==
    IF \E i \in 1..Len(l) : l[i] = x
    THEN CHOOSE i \in 1..Len(l) : l[i] = x /\ \A j \in (i + 1)..Len(l) : l[j] # x
    ELSE 0

\* l.index(x), counted from 1; 0 stands for ValueError
ListIndex(l, x) ==
    IF \E i \in 1..Len(l) : l[i] = x
    THEN CHOOSE i \in 1..Len(l) : l[i] = x /\ \A j \in 1..(i - 1) : l[j] # x
    ELSE 0

\* s.replace(c, "")
RECURSIVE Remove(_, _)
Remove(s, c) ==
    IF s = <<>> THEN <<>>
    ELSE (IF s[1] = c THEN <<>> ELSE <<s[1]>>) \o Remove(Tail(s), c)

\* s[:n]
Take(s, n) == SubSeq(s, 1, IF Len(s) < n THEN Len(s) ELSE n)

\* sep.join(l)
RECURSIVE Join(_, _)
Join(l, sep) ==
    IF l = <<>> THEN <<>>
    ELSE IF Len(l) = 1 THEN l[1]
    ELSE l[1] \o sep \o Join(Tail(l), sep)

\* int(s) of a string of digits
RECURSIVE ToInt(_)
ToInt(s) ==
    IF s = <<>> THEN 0
    ELSE 10 * ToInt(SubSeq(s, 1, Len(s) - 1))
         + (CHOOSE d \in 0..9 : Digits[d + 1] = s[Len(s)])

\* str(n) of a natural number
RECURSIVE ToStr(_)
ToStr(n) ==
    IF n < 10 THEN <<Digits[n + 1]>>
    ELSE ToStr(n \div 10) \o <<Digits[(n % 10) + 1]>>

(***************************************************************************)
(* packaging.version: parse() and str() of a Version.  The model covers    *)
(* the strings  [vV]? N(.N)* (+local)?  ; the strings the model feeds it    *)
(* hold no pre-, post- or dev-release segment and no epoch.  A Version is   *)
(* a record of its release tuple and its local segment.                    *)
(***************************************************************************)
NoVersion == [ok |-> FALSE, release |-> <<>>, local |-> <<>>]

\* packaging.version.parse(s); ok = FALSE stands for InvalidVersion
Parse(s) ==
    LET t     == Strip(s)
        body  == IF t # <<>> /\ t[1] \in {"v", "V"} THEN Tail(t) ELSE t
        plus  == FirstIn(body, {"+"}, 1)
        rel   == SubSeq(body, 1, plus - 1)
        loc   == SubSeq(body, plus + 1, Len(body))
        comps == Split(rel, ".")
        relOk == \A i \in 1..Len(comps) :
                     comps[i] # <<>> /\ \A k \in 1..Len(comps[i]) : IsDigit(comps[i][k])
        locOk == plus > Len(body)
                 \/ (loc # <<>> /\ \A k \in 1..Len(loc) : IsAlnum(loc[k]))
    IN  IF relOk /\ locOk
        THEN [ok |-> TRUE,
              release |-> [i \in 1..Len(comps) |-> ToInt(comps[i])],
              local |-> loc]
        ELSE NoVersion

\* str(version): the release numbers joined by dots, then +local
VersionStr(v) ==
    Join([i \in 1..Len(v.release) |-> ToStr(v.release[i])], <<".">>)
    \o (IF v.local = <<>> THEN <<>> ELSE <<"+">> \o v.local)

\* version.major
Major(v) == IF Len(v.release) >= 1 THEN v.release[1] ELSE 0

\* version.minor
Minor(v) == IF Len(v.release) >= 2 THEN v.release[2] ELSE 0

(***************************************************************************)
(* find_version: re.search of the pattern                                  *)
(*     ^  __version__ =  Q  group  Q                                       *)
(* under re.M, where Q is a single or a double quote and the group is the  *)
(* longest run of characters that are no quote.  With re.M the anchor      *)
(* matches at the start of the text and after every newline; the group's   *)
(* character class also matches a newline.                                 *)
(***************************************************************************)
NoFile == <<"<no such file>">>

VersionPrefix ==
    <<"_", "_", "v", "e", "r", "s", "i", "o", "n", "_", "_", " ", "=", " ">>

Quotes == {"'", "\""}

\* LineStarts with a fault: re.M is left out, ^ matches at the start only
LineStartsNoMultiline(s) == {i \in 1..Len(s) : i = 1}

\* the positions where ^ matches under re.M
LineStarts(s) == {i \in 1..Len(s) : i = 1 \/ s[i - 1] = "\n"}

\* where ([^'"]*)['"] ends for a literal opened at position open: the
\* first quote after it; Len(s) + 1 when the text holds none
ClosingQuote(s, open) == FirstIn(s, Quotes, open + 1)

\* whether the pattern matches with ^ at position i
MatchesAt(s, i) ==
    LET open == i + Len(VersionPrefix)
    IN  /\ open <= Len(s)
        /\ SubSeq(s, i, open - 1) = VersionPrefix
        /\ s[open] \in Quotes
        /\ ClosingQuote(s, open) <= Len(s)

\* group(1) of the match with ^ at position i
GroupAt(s, i) ==
    LET open == i + Len(VersionPrefix)
    IN  SubSeq(s, open + 1, ClosingQuote(s, open) - 1)

\* find_version with a fault: the last match of the text is returned
find_version_last(text) ==
    IF text = NoFile THEN [ok |-> FALSE, err |-> "FileNotFoundError", val |-> <<>>]
    ELSE LET ms == {i \in LineStarts(text) : MatchesAt(text, i)}
         IN  IF ms # {}
             THEN [ok |-> TRUE, err |-> "",
                   val |-> GroupAt(text, CHOOSE i \in ms : \A j \in ms : j <= i)]
             ELSE [ok |-> FALSE, err |-> "RuntimeError", val |-> <<>>]

\* find_version(filepath), given the text of the file (NoFile: open() fails).
\* re.search returns the leftmost match.
find_version(text) ==
    IF text = NoFile THEN [ok |-> FALSE, err |-> "FileNotFoundError", val |-> <<>>]
    ELSE LET ms == {i \in LineStarts(text) : MatchesAt(text, i)}
         IN  IF ms # {}
             THEN [ok |-> TRUE, err |-> "",
                   val |-> GroupAt(text, CHOOSE i \in ms : \A j \in ms : i <= j)]
             ELSE [ok |-> FALSE, err |-> "RuntimeError", val |-> <<>>]

(***************************************************************************)
(* get_nvcc_cuda_version, after the assertion and the subprocess call:     *)
(* the parsing of nvcc's output.                                           *)
(***************************************************************************)
Release == <<"r", "e", "l", "e", "a", "s", "e">>

\* lines 42-45: split the output, find "release", parse the token after it
\* up to its first comma
parse_nvcc_output(nvcc_output) ==
    LET output      == SplitWs(nvcc_output)
        release_idx == ListIndex(output, Release) + 1
    IN  IF release_idx = 1
        THEN [ok |-> FALSE, err |-> "ValueError", val |-> NoVersion]
        ELSE IF release_idx > Len(output)
        THEN [ok |-> FALSE, err |-> "IndexError", val |-> NoVersion]
        ELSE LET v == Parse(Split(output[release_idx], ",")[1])
             IN  IF v.ok THEN [ok |-> TRUE, err |-> "", val |-> v]
                 ELSE [ok |-> FALSE, err |-> "InvalidVersion", val |-> NoVersion]

(***************************************************************************)
(* get_version, after find_version and the probe have returned.            *)
(***************************************************************************)
\* cuda_version_str with a fault: the dots are kept
cuda_version_str_dots(cuda) == Take(VersionStr(cuda), 3)

\* line 69: cuda_version.replace(".", "")[:3]
cuda_version_str(cuda) == Take(Remove(VersionStr(cuda), "."), 3)

\* lines 70-71: f"{major}.{minor}" of parse(torch.__version__)
torch_version_str(torch_version) ==
    LET raw == Parse(torch_version)
    IN  ToStr(Major(raw)) \o <<".">> \o ToStr(Minor(raw))

\* line 72: version += f"+cu{cuda_version_str}torch{torch_version_str}"
assemble_version(base, cuda, torch_version) ==
    base \o <<"+", "c", "u">> \o cuda_version_str(cuda)
         \o <<"t", "o", "r", "c", "h">> \o torch_version_str(torch_version)

(***************************************************************************)
(* get_extensions: glob.glob over the listing of flute/csrc.               *)
(***************************************************************************)
LIBRARY_NAME == <<"f", "l", "u", "t", "e">>

\* os.path.join(os.path.dirname(os.path.curdir), LIBRARY_NAME, "csrc"),
\* followed by the separator join() puts before the pattern
extensions_dir == LIBRARY_NAME \o <<"/", "c", "s", "r", "c", "/">>

\* fnmatch of a file name against "*" + suffix; glob does not let "*"
\* match a name that starts with a dot
GlobMatches(name, suffix) ==
    /\ name # <<>>
    /\ name[1] # "."
    /\ EndsWith(name, suffix)

RECURSIVE Filter(_, _)
Filter(listing, suffix) ==
    IF listing = <<>> THEN <<>>
    ELSE (IF GlobMatches(listing[1], suffix) THEN <<extensions_dir \o listing[1]>> ELSE <<>>)
         \o Filter(Tail(listing), suffix)

\* glob.glob(os.path.join(extensions_dir, "*" + suffix)); NoDir is a
\* directory that does not exist, where glob finds nothing
NoDir == <<NoFile>>

Glob(listing, suffix) == IF listing = NoDir THEN <<>> ELSE Filter(listing, suffix)

\* get_extensions with a fault: the *.cu matches come first
get_extensions_cu_first(listing) ==
    << [name    |-> LIBRARY_NAME \o <<".", "_", "C">>,
        sources |-> Glob(listing, <<".", "c", "u">>)
                    \o Glob(listing, <<".", "c", "p", "p">>)] >>

\* get_extensions(): one CUDAExtension, its sources the *.cpp matches
\* followed by the *.cu matches
get_extensions(listing) ==
    << [name    |-> LIBRARY_NAME \o <<".", "_", "C">>,
        sources |-> Glob(listing, <<".", "c", "p", "p">>)
                    \o Glob(listing, <<".", "c", "u">>)] >>

(***************************************************************************)
(* get_requirements: the text of a file as _read_requirements sees it.     *)
(***************************************************************************)
RequirementsTxt ==
    <<"r", "e", "q", "u", "i", "r", "e", "m", "e", "n", "t", "s", ".", "t", "x", "t">>

\* read_lines with a fault: the text is not stripped
read_lines_unstripped(text) == Split(text, "\n")

\* line 120: f.read().strip().split("\n")
read_lines(text) == Split(Strip(text), "\n")

\* is_include with a fault: any line that starts with -r
is_include_loose(line) == StartsWith(line, <<"-", "r">>)

\* line 123: line.startswith("-r ")
is_include(line) == StartsWith(line, <<"-", "r", " ">>)

\* line 124: line.split(), of which [1] names the file to read
include_tokens(line) == SplitWs(line)

(***************************************************************************)
(* The environment a run of the script finds: the files, the toolchain     *)
(* and the installed torch.  Every input but one or two is held at a base  *)
(* value; the others range over generated values.                          *)
(***************************************************************************)
\* all sequences of 1..n members of pool
SeqsUpTo(pool, n) == UNION {[1..k -> pool] : k \in 1..n}

\* the text of a file with these lines, each ended by a newline
FileOf(lines) == Join(lines, <<"\n">>) \o <<"\n">>

VersionLines ==
    { VersionPrefix \o <<"\"", "1", ".", "0", ".", "0", "\"">>,
      VersionPrefix \o <<"'", " ", "2", ".", "1", "'">>,
      VersionPrefix \o <<"\"", "0", ".", "9">>,
      <<"n", "a", "m", "e", " ", "=", " ", "\"", "f", "l", "u", "t", "e", "\"">>,
      <<" ">> \o VersionPrefix \o <<"\"", "3", ".", "0", "\"">>,
      <<"i", "m", "p", "o", "r", "t", " ", "o", "s">>,
      VersionPrefix \o <<"\"", "1", ".", "0", "'", " ", "#", " ", "d", "e", "v">> }

VersionFiles == {FileOf(l) : l \in SeqsUpTo(VersionLines, MaxVerLines)} \cup {NoFile}

BaseVersionFile == FileOf(<< VersionPrefix \o <<"\"", "1", ".", "0", ".", "0", "\"">> >>)

NvccTokens ==
    { Release,
      <<"1", "2", ".", "1", ",">>,
      <<"9", ".", "2", ",">>,
      <<"V", "1", "2", ".", "1", ".", "1", "0", "5">>,
      <<"t", "o", "o", "l", "s", ",">>,
      <<"1", "1", ".", "8", ",", "V", "1", "1", ".", "8">> }

\* the subprocess cannot be run or exits with an error
NvccFails == NoFile

\* what nvcc -V prints: its tokens on one line
NvccOutputs ==
    {Join(l, <<" ">>) \o <<"\n">> : l \in SeqsUpTo(NvccTokens, MaxTokens)}
    \cup {NvccFails}

\* nvcc -V of a toolkit of the given release
NvccOf(v) ==
    <<"C", "u", "d", "a", " ", "t", "o", "o", "l", "s", ",", " ">> \o Release
    \o <<" ">> \o v \o <<",", " ", "V">> \o v \o <<".", "1", "0", "5", "\n">>

CudaReleases ==
    { <<"1", "2", ".", "1">>, <<"9", ".", "2">>, <<"1", "0", ".", "0">>,
      <<"1", "1", ".", "8">>, <<"1", "2", ".", "1", "0">> }

BaseNvccOutput == NvccOf(<<"1", "2", ".", "1">>)

TorchVersions ==
    { <<"2", ".", "3", ".", "1">>,
      <<"2", ".", "3", ".", "1", "+", "c", "u", "1", "2", "1">>,
      <<"1", ".", "1", "3", ".", "0">>,
      <<"2", ".", "1", "0", ".", "0">> }

BaseTorchVersion == <<"2", ".", "3", ".", "1">>

FileNames ==
    { <<"a", ".", "c", "p", "p">>, <<"b", ".", "c", "u">>, <<"c", ".", "h">>,
      <<".", "d", ".", "c", "p", "p">>, <<"e", ".", "c", "p", "p">>,
      <<"f", ".", "c", "u">> }

\* the listings of flute/csrc, in the order the file system returns them
Listings ==
    {l \in SeqsUpTo(FileNames, MaxDirLen) :
         \A i, j \in 1..Len(l) : i # j => l[i] # l[j]}
    \cup {<<>>, NoDir}

BaseListing == << <<"a", ".", "c", "p", "p">>, <<"b", ".", "c", "u">> >>

RootLines ==
    { <<"x">>, <<>>, <<"-", "r", " ", "a">>, <<"-", "r", " ", "m">>,
      <<"-", "r", " ">> }

\* the requirements files: requirements.txt is generated, a and b take a
\* few texts each (a may include itself or b, b may include a back), and
\* no file m exists
FileSystems ==
    { (RequirementsTxt :> FileOf(root)) @@ (<<"a">> :> a) @@ (<<"b">> :> b) :
          root \in SeqsUpTo(RootLines, MaxReqLines),
          a \in { <<" ", "x", "\n", " ", "y", "\n">>,
                  <<"-", "r", " ", "b", "\n", "x">>,
                  <<"-", "r", " ", "a">> },
          b \in { <<"z">>, <<"-", "r", " ", "a", "\n">> } }

BaseFiles == (RequirementsTxt :> <<"x", "\n">>)

BaseEnv ==
    [versionFile |-> BaseVersionFile, nvccOutput |-> BaseNvccOutput,
     torchVersion |-> BaseTorchVersion, csrcDir |-> BaseListing,
     files |-> BaseFiles]

BaseVersions ==
    { BaseVersionFile, FileOf(<< VersionPrefix \o <<"'", " ", "2", ".", "1", "'">> >>) }

Environments ==
    {[BaseEnv EXCEPT !.versionFile = v] : v \in VersionFiles}
    \cup {[BaseEnv EXCEPT !.nvccOutput = n] : n \in NvccOutputs}
    \cup {[BaseEnv EXCEPT !.csrcDir = l] : l \in Listings}
    \cup {[BaseEnv EXCEPT !.files = f] : f \in FileSystems}
    \cup {[BaseEnv EXCEPT !.versionFile = v, !.nvccOutput = NvccOf(c),
                          !.torchVersion = t] :
              v \in BaseVersions, c \in CudaReleases, t \in TorchVersions}

(***************************************************************************)
(* The run of the script: setup(...) evaluates its keyword arguments in    *)
(* the order they are written, then is called.                             *)
(***************************************************************************)
VARIABLES
    env,               \* what the run finds: files, toolchain output, torch
    CUDA_HOME,         \* TRUE when torch found a CUDA toolkit (not None)
    pc,                \* the step to execute next, "done" or "failed"
    log,               \* the steps executed so far, in order
    error,             \* the exception that ended the run, "" when none
    version,           \* find_version's result
    cuda_version,      \* get_nvcc_cuda_version's result
    package_version,   \* get_version's result
    ext_modules,       \* get_extensions' result
    stack,             \* the frames of _read_requirements, innermost last
    install_requires,  \* get_requirements' result
    nvccCalls,         \* subprocess.check_output calls made
    globCalls,         \* glob.glob calls made
    setupCalls         \* calls of setup()

vars ==
    <<env, CUDA_HOME, pc, log, error, version, cuda_version, package_version,
      ext_modules, stack, install_requires, nvccCalls, globCalls, setupCalls>>

\* the value of a name that is not bound yet
Unset == <<"<unset>">>

\* the same for a name that will hold a list of strings
UnsetList == <<Unset>>

\* the same for a name that will hold a list of extension descriptors
UnsetModules == <<[name |-> Unset, sources |-> <<>>]>>

Init ==
    /\ env \in Environments
    /\ CUDA_HOME \in BOOLEAN
    /\ pc = "find_version"
    /\ log = <<>>
    /\ error = ""
    /\ version = Unset
    /\ cuda_version = NoVersion
    /\ package_version = Unset
    /\ ext_modules = UnsetModules
    /\ stack = <<>>
    /\ install_requires = UnsetList
    /\ nvccCalls = 0
    /\ globCalls = 0
    /\ setupCalls = 0

\* StepAfter with a fault: the requirements are read before the sources
\* are globbed
StepAfterSwapped(step) ==
    CASE step = "find_version"          -> "get_nvcc_cuda_version"
      [] step = "get_nvcc_cuda_version" -> "assemble_version"
      [] step = "assemble_version"      -> "find_packages"
      [] step = "find_packages"         -> "get_requirements"
      [] step = "get_requirements"      -> "get_extensions"
      [] step = "get_extensions"        -> "setup"
      [] step = "setup"                 -> "done"

\* the step that follows a step that returned: get_version's body (lines
\* 67-72), then the keyword arguments of setup in their order (lines
\* 134-138), then the call
StepAfter(step) ==
    CASE step = "find_version"          -> "get_nvcc_cuda_version"
      [] step = "get_nvcc_cuda_version" -> "assemble_version"
      [] step = "assemble_version"      -> "find_packages"
      [] step = "find_packages"         -> "get_extensions"
      [] step = "get_extensions"        -> "get_requirements"
      [] step = "get_requirements"      -> "setup"
      [] step = "setup"                 -> "done"

\* cuda_home_is_set with a fault: the assertion is compiled out
cuda_home_unchecked(home) == TRUE

\* line 38: CUDA_HOME is not None
cuda_home_is_set(home) == home

\* an uncaught exception ends the run
Raise(e) ==
    /\ pc' = "failed"
    /\ error' = e

\* line 67: version = find_version(get_path(LIBRARY_NAME, "__init__.py"))
FindVersion ==
    /\ pc = "find_version"
    /\ log' = Append(log, "find_version")
    /\ LET r == find_version(env.versionFile)
       IN  IF r.ok
           THEN /\ version' = r.val
                /\ pc' = StepAfter("find_version")
                /\ error' = error
           ELSE /\ Raise(r.err)
                /\ version' = version
    /\ UNCHANGED <<env, CUDA_HOME, cuda_version, package_version, ext_modules,
                   stack, install_requires, nvccCalls, globCalls, setupCalls>>

\* line 68, lines 33-45: get_nvcc_cuda_version()
GetNvccCudaVersion ==
    /\ pc = "get_nvcc_cuda_version"
    /\ log' = Append(log, "get_nvcc_cuda_version")
    /\ IF ~cuda_home_is_set(CUDA_HOME)
       THEN /\ Raise("AssertionError")
            /\ UNCHANGED <<nvccCalls, cuda_version>>
       ELSE /\ nvccCalls' = nvccCalls + 1
            /\ IF env.nvccOutput = NvccFails
               THEN /\ Raise("CalledProcessError")
                    /\ cuda_version' = cuda_version
               ELSE LET r == parse_nvcc_output(env.nvccOutput)
                    IN  IF r.ok
                        THEN /\ cuda_version' = r.val
                             /\ pc' = StepAfter("get_nvcc_cuda_version")
                             /\ error' = error
                        ELSE /\ Raise(r.err)
                             /\ cuda_version' = cuda_version
    /\ UNCHANGED <<env, CUDA_HOME, version, package_version, ext_modules,
                   stack, install_requires, globCalls, setupCalls>>

\* lines 69-74: the rest of get_version
AssembleVersion ==
    /\ pc = "assemble_version"
    /\ log' = Append(log, "assemble_version")
    /\ IF Parse(env.torchVersion).ok
       THEN /\ package_version' =
                   assemble_version(version, cuda_version, env.torchVersion)
            /\ pc' = StepAfter("assemble_version")
            /\ error' = error
       ELSE /\ Raise("InvalidVersion")
            /\ package_version' = package_version
    /\ UNCHANGED <<env, CUDA_HOME, version, cuda_version, ext_modules, stack,
                   install_requires, nvccCalls, globCalls, setupCalls>>

\* line 135: packages=find_packages()
FindPackages ==
    /\ pc = "find_packages"
    /\ log' = Append(log, "find_packages")
    /\ pc' = StepAfter("find_packages")
    /\ UNCHANGED <<env, CUDA_HOME, error, version, cuda_version, package_version,
                   ext_modules, stack, install_requires, nvccCalls, globCalls,
                   setupCalls>>

\* line 137, lines 77-112: ext_modules=get_extensions()
GetExtensions ==
    /\ pc = "get_extensions"
    /\ log' = Append(log, "get_extensions")
    /\ globCalls' = globCalls + 2
    /\ ext_modules' = get_extensions(env.csrcDir)
    /\ pc' = StepAfter("get_extensions")
    /\ UNCHANGED <<env, CUDA_HOME, error, version, cuda_version, package_version,
                   stack, install_requires, nvccCalls, setupCalls>>

\* lines 118-121: a call of _read_requirements(filename) from a state with
\* the frames st: open and read the file, start with an empty result.  The
\* interpreter raises RecursionError when the frames reach its limit.
CallReadRequirements(filename, st) ==
    IF Len(st) >= RecursionLimit
    THEN /\ Raise("RecursionError")
         /\ stack' = st
    ELSE IF filename \notin DOMAIN env.files
    THEN /\ Raise("FileNotFoundError")
         /\ stack' = st
    ELSE /\ stack' = Append(st, [filename |-> filename,
                                 requirements |-> read_lines(env.files[filename]),
                                 next |-> 1,
                                 resolved_requirements |-> <<>>])
         /\ pc' = "_read_requirements"
         /\ error' = error

\* line 138, line 129: install_requires=get_requirements(), which calls
\* _read_requirements("requirements.txt")
GetRequirements ==
    /\ pc = "get_requirements"
    /\ log' = Append(log, "get_requirements")
    /\ CallReadRequirements(RequirementsTxt, stack)
    /\ UNCHANGED <<env, CUDA_HOME, version, cuda_version, package_version,
                   ext_modules, install_requires, nvccCalls, globCalls, setupCalls>>

\* lines 122-126: one iteration of the loop of the innermost frame
ReadLine ==
    /\ pc = "_read_requirements"
    /\ LET top  == stack[Len(stack)]
           line == top.requirements[top.next]
       IN  /\ top.next <= Len(top.requirements)
           /\ IF is_include(line)
              THEN IF Len(include_tokens(line)) < 2
                   THEN /\ Raise("IndexError")
                        /\ stack' = stack
                   ELSE CallReadRequirements(include_tokens(line)[2], stack)
              ELSE /\ stack' = [stack EXCEPT ![Len(stack)] =
                          [top EXCEPT !.resolved_requirements = Append(@, line),
                                      !.next = @ + 1]]
                   /\ UNCHANGED <<pc, error>>
    /\ UNCHANGED <<env, CUDA_HOME, log, version, cuda_version, package_version,
                   ext_modules, install_requires, nvccCalls, globCalls, setupCalls>>

\* line 127: the innermost frame returns its list; the caller extends its
\* own with it (line 124), or get_requirements returns it (line 129)
Return ==
    /\ pc = "_read_requirements"
    /\ LET top == stack[Len(stack)]
           n   == Len(stack)
       IN  /\ top.next > Len(top.requirements)
           /\ IF n = 1
              THEN /\ stack' = <<>>
                   /\ install_requires' = top.resolved_requirements
                   /\ pc' = StepAfter("get_requirements")
              ELSE /\ stack' = [SubSeq(stack, 1, n - 1) EXCEPT ![n - 1] =
                          [@ EXCEPT !.resolved_requirements =
                                        @ \o top.resolved_requirements,
                                    !.next = @ + 1]]
                   /\ UNCHANGED <<pc, install_requires>>
    /\ UNCHANGED <<env, CUDA_HOME, log, error, version, cuda_version,
                   package_version, ext_modules, nvccCalls, globCalls, setupCalls>>

\* lines 132-140: the call of setup with the evaluated arguments
Setup ==
    /\ pc = "setup"
    /\ log' = Append(log, "setup")
    /\ setupCalls' = setupCalls + 1
    /\ pc' = StepAfter("setup")
    /\ UNCHANGED <<env, CUDA_HOME, error, version, cuda_version, package_version,
                   ext_modules, stack, install_requires, nvccCalls, globCalls>>

Next ==
    \/ FindVersion
    \/ GetNvccCudaVersion
    \/ AssembleVersion
    \/ FindPackages
    \/ GetExtensions
    \/ GetRequirements
    \/ ReadLine
    \/ Return
    \/ Setup

Spec == Init /\ [][Next]_vars

(***************************************************************************)
(* The vocabulary of the properties.  These definitions describe texts by  *)
(* the positions of their characters; they use none of the operators       *)
(* above that compute what the script computes.                            *)
(***************************************************************************)
Least(S) == CHOOSE x \in S : \A y \in S : x <= y

Greatest(S) == CHOOSE x \in S : \A y \in S : y <= x

\* the k-th member of a set of positions
Nth(S, k) == CHOOSE p \in S : Cardinality({q \in S : q < p}) = k - 1

Visible(t) == {i \in 1..Len(t) : t[i] \notin Whitespace}

\* t without its leading and trailing whitespace
Trimmed(t) ==
    IF Visible(t) = {} THEN <<>>
    ELSE SubSeq(t, Least(Visible(t)), Greatest(Visible(t)))

\* the pieces of t between the occurrences of c
Pieces(t, c) ==
    LET at == {i \in 1..Len(t) : t[i] = c}
        n  == Cardinality(at)
        edge(k) == IF k = 0 THEN 0 ELSE IF k = n + 1 THEN Len(t) + 1 ELSE Nth(at, k)
    IN  [k \in 1..(n + 1) |-> SubSeq(t, edge(k - 1) + 1, edge(k) - 1)]

LinesOf(t) == Pieces(t, "\n")

\* the whitespace-separated words of t
Words(t) ==
    LET first == {i \in Visible(t) : i = 1 \/ t[i - 1] \in Whitespace}
        last  == {i \in Visible(t) : i = Len(t) \/ t[i + 1] \in Whitespace}
    IN  [k \in 1..Cardinality(first) |-> SubSeq(t, Nth(first, k), Nth(last, k))]

HasQuote(t) == \E i \in 1..Len(t) : t[i] \in Quotes

\* a line that begins with __version__ = and an opening quote
OpensLiteral(l) ==
    /\ Len(l) > Len(VersionPrefix)
    /\ \A i \in 1..Len(VersionPrefix) : l[i] = VersionPrefix[i]
    /\ l[Len(VersionPrefix) + 1] \in Quotes

\* the rest of such a line, after its opening quote
AfterOpening(l) == SubSeq(l, Len(VersionPrefix) + 2, Len(l))

\* a line that begins with __version__ = followed by a quoted literal
IsVersionLine(l) == OpensLiteral(l) /\ HasQuote(AfterOpening(l))

\* the characters between the quotes of such a line
LiteralOf(l) ==
    LET rest == AfterOpening(l)
    IN  SubSeq(rest, 1, Least({i \in 1..Len(rest) : rest[i] \in Quotes}) - 1)

\* the lines of the text that begin with __version__ = and a quote
OpeningLines(text) ==
    {k \in 1..Len(LinesOf(text)) : OpensLiteral(LinesOf(text)[k])}

\* the lines of the text that begin with __version__ = and a quoted literal
VersionLinesOf(text) ==
    {k \in 1..Len(LinesOf(text)) : IsVersionLine(LinesOf(text)[k])}

\* some line opens a literal and a quote follows the opening quote, on that
\* line or on a later one
OpensClosedLiteral(text) ==
    LET L == LinesOf(text)
    IN  \E k \in 1..Len(L) :
            /\ OpensLiteral(L[k])
            /\ \/ HasQuote(AfterOpening(L[k]))
               \/ \E m \in (k + 1)..Len(L) : HasQuote(L[m])

Ran(step) == \E i \in 1..Len(log) : log[i] = step

\* step is the last step that ran: its results are now observed
JustRan(step) == log # <<>> /\ log[Len(log)] = step

FailedIn(step) == pc = "failed" /\ log # <<>> /\ log[Len(log)] = step

Finished == pc \in {"done", "failed"}

(***************************************************************************)
(* find_version.                                                           *)
(***************************************************************************)
\* C5, as stated: for every version file that holds a line beginning with
\* __version__ = and a quoted literal, find_version returns the characters
\* between the quotes of the first such line.
C5_FirstVersionLineAsStated ==
    (JustRan("find_version") /\ env.versionFile # NoFile
        /\ VersionLinesOf(env.versionFile) # {})
    => version = LiteralOf(LinesOf(env.versionFile)[
                               Least(VersionLinesOf(env.versionFile))])

\* C5, amended: when the first line that begins with __version__ = and a
\* quote has its closing quote on that same line, find_version returns
\* exactly the characters between the quotes of that line, whatever lines
\* precede or follow it.
C5_FirstVersionLine ==
    (JustRan("find_version") /\ env.versionFile # NoFile
        /\ OpeningLines(env.versionFile) # {}
        /\ IsVersionLine(LinesOf(env.versionFile)[
                             Least(OpeningLines(env.versionFile))]))
    => /\ version = LiteralOf(LinesOf(env.versionFile)[
                                  Least(OpeningLines(env.versionFile))])
       /\ ~FailedIn("find_version")

\* a file whose version line is its second line, its literal holding a space
C5_Witness ==
    /\ Ran("find_version")
    /\ env.versionFile # NoFile
    /\ Len(LinesOf(env.versionFile)) >= 2
    /\ ~OpensLiteral(LinesOf(env.versionFile)[1])
    /\ IsVersionLine(LinesOf(env.versionFile)[2])
    /\ version = <<" ", "2", ".", "1">>

\* C6, as stated: find_version raises RuntimeError if and only if no line
\* of the version file begins with __version__ = and a quoted literal.
C6_RaisesIffNoVersionLineAsStated ==
    (JustRan("find_version") /\ env.versionFile # NoFile)
    => ((FailedIn("find_version") /\ error = "RuntimeError")
            <=> VersionLinesOf(env.versionFile) = {})

\* C6, amended: find_version raises RuntimeError if and only if no line
\* begins with __version__ = and an opening quote that is followed by a
\* second quote, on that line or on a later one; then no version is
\* returned, get_version produces nothing and the run aborts before the
\* probe, the glob and setup.
C6_RaisesIffNoMatch ==
    (JustRan("find_version") /\ env.versionFile # NoFile)
    => /\ (FailedIn("find_version") /\ error = "RuntimeError")
              <=> ~OpensClosedLiteral(env.versionFile)
       /\ ~OpensClosedLiteral(env.versionFile)
              => /\ version = Unset
                 /\ package_version = Unset
                 /\ pc = "failed"
                 /\ log = <<"find_version">>
                 /\ nvccCalls = 0 /\ globCalls = 0 /\ setupCalls = 0

\* the error is raised for a file of two lines, one of them an indented
\* version line
C6_Witness ==
    /\ FailedIn("find_version")
    /\ error = "RuntimeError"
    /\ Len(LinesOf(env.versionFile)) >= 2
    /\ \E k \in 1..2 : LET l == LinesOf(env.versionFile)[k]
                       IN  l # <<>> /\ l[1] = " " /\ IsVersionLine(Tail(l))

(***************************************************************************)
(* get_nvcc_cuda_version.                                                  *)
(***************************************************************************)
IsNumeral(v) ==
    /\ v # <<>>
    /\ \A i \in 1..Len(v) : v[i] = "." \/ \E d \in 1..10 : Digits[d] = v[i]
    /\ v[1] # "." /\ v[Len(v)] # "."
    /\ \A i \in 1..(Len(v) - 1) : ~(v[i] = "." /\ v[i + 1] = ".")

\* the numbers a numeral denotes
NumbersOf(v) == [k \in 1..Len(Pieces(v, ".")) |-> ToInt(Pieces(v, ".")[k])]

\* the word that follows the first word "release" of the output
AfterRelease(out) ==
    LET W == Words(out)
    IN  W[Least({k \in 1..Len(W) : W[k] = Release}) + 1]

\* the first word "release" of the output is followed by a word V,...
\* with V a numeral
ReleaseThenVersion(out) ==
    LET W == Words(out)
        R == {k \in 1..Len(W) : W[k] = Release}
    IN  /\ R # {}
        /\ Least(R) < Len(W)
        /\ Len(Pieces(AfterRelease(out), ",")) >= 2
        /\ IsNumeral(Pieces(AfterRelease(out), ",")[1])

\* C7: for every nvcc -V output in which the first word "release" is
\* followed by a word of the form V,... the probe returns the version V:
\* the text before the first comma of the word after the first "release".
C7_ProbeReturnsRelease ==
    (JustRan("get_nvcc_cuda_version") /\ CUDA_HOME /\ env.nvccOutput # NvccFails
        /\ ReleaseThenVersion(env.nvccOutput))
    => /\ ~FailedIn("get_nvcc_cuda_version")
       /\ cuda_version.ok
       /\ cuda_version.release =
              NumbersOf(Pieces(AfterRelease(env.nvccOutput), ",")[1])
       /\ cuda_version.local = <<>>

\* an output with two words "release", the first followed by 9.2,
C7_Witness ==
    /\ Ran("get_nvcc_cuda_version")
    /\ cuda_version.ok
    /\ cuda_version.release = <<9, 2>>
    /\ Cardinality({k \in 1..Len(Words(env.nvccOutput)) :
                        Words(env.nvccOutput)[k] = Release}) = 2

(***************************************************************************)
(* get_version.                                                            *)
(***************************************************************************)
\* the decimal digits of the numbers of a release, one after the other
RECURSIVE DigitsOfRelease(_)
DigitsOfRelease(r) ==
    IF r = <<>> THEN <<>> ELSE ToStr(r[1]) \o DigitsOfRelease(Tail(r))

\* the first n characters of t, all of t when it is shorter
Prefix(t, n) == [i \in 1..(IF Len(t) < n THEN Len(t) ELSE n) |-> t[i]]

\* the release numbers of the installed torch: the numeral before any +
TorchRelease == NumbersOf(Pieces(env.torchVersion, "+")[1])

\* base +cu D torch major . minor
Assembled(base, D) ==
    base \o <<"+", "c", "u">> \o D \o <<"t", "o", "r", "c", "h">>
         \o ToStr(TorchRelease[1]) \o <<".">> \o ToStr(TorchRelease[2])

\* C3, as stated: get_version returns base+cuDtorchM.m where D is exactly
\* three digits derived from the CUDA version with its dots removed.
C3_VersionStringAsStated ==
    JustRan("assemble_version") /\ package_version # Unset
    => \E D \in [1..3 -> {Digits[d] : d \in 1..10}] :
           package_version = Assembled(version, D)

\* C3, amended: D is the first three characters of the CUDA version with
\* its dots removed, and all of them when there are fewer than three
\* (CUDA 9.2 gives cu92).
C3_VersionString ==
    JustRan("assemble_version") /\ package_version # Unset
    => package_version =
           Assembled(version, Prefix(DigitsOfRelease(cuda_version.release), 3))

\* base 1.0.0, CUDA 12.1, torch 2.3.1 give 1.0.0+cu121torch2.3
C3_Witness ==
    /\ version = <<"1", ".", "0", ".", "0">>
    /\ cuda_version.release = <<12, 1>>
    /\ env.torchVersion = <<"2", ".", "3", ".", "1">>
    /\ package_version =
           <<"1", ".", "0", ".", "0", "+", "c", "u", "1", "2", "1",
             "t", "o", "r", "c", "h", "2", ".", "3">>

(***************************************************************************)
(* The order of the steps.                                                 *)
(***************************************************************************)
\* C4, as stated: in every run where CUDA_HOME is unset, the probe fails
\* with an assertion failure without invoking nvcc, and the run aborts
\* before any globbing.
C4_UnsetCudaHomeAsStated ==
    (~CUDA_HOME /\ Finished)
    => /\ FailedIn("get_nvcc_cuda_version")
       /\ error = "AssertionError"
       /\ nvccCalls = 0
       /\ globCalls = 0

\* C4, amended: in every run where CUDA_HOME is unset, nvcc is never invoked
\* and nothing is globbed; when find_version returned a version, the run
\* ends in the probe with an assertion failure (otherwise it has ended
\* before, in find_version).
C4_UnsetCudaHome ==
    ~CUDA_HOME
    => /\ nvccCalls = 0
       /\ globCalls = 0
       /\ setupCalls = 0
       /\ ~Ran("get_extensions")
       /\ Ran("get_nvcc_cuda_version")
              => (FailedIn("get_nvcc_cuda_version") /\ error = "AssertionError")
       /\ (Finished /\ version # Unset)
              => (FailedIn("get_nvcc_cuda_version") /\ error = "AssertionError")

C4_Witness ==
    /\ ~CUDA_HOME
    /\ version # Unset
    /\ FailedIn("get_nvcc_cuda_version")
    /\ error = "AssertionError"
    /\ nvccCalls = 0

StepOrder ==
    <<"find_version", "get_nvcc_cuda_version", "assemble_version",
      "find_packages", "get_extensions", "get_requirements", "setup">>

\* C9: the steps run in one fixed order; a failure of a step is fatal: no
\* later step has run, no step has run twice, and setup is called at most
\* once and only after every earlier step has succeeded; when the version
\* literal is missing nvcc is never invoked.
C9_LinearOrder ==
    /\ Len(log) <= Len(StepOrder)
    /\ \A i \in 1..Len(log) : log[i] = StepOrder[i]
    /\ nvccCalls <= 1 /\ globCalls <= 2 /\ setupCalls <= 1
    /\ (pc = "failed") <=> (error # "")
    /\ pc = "failed" => setupCalls = 0
    /\ setupCalls = 1 => (log = StepOrder /\ error = "" /\ pc = "done")
    /\ Ran("get_nvcc_cuda_version") => version # Unset
    /\ Ran("assemble_version") => cuda_version.ok
    /\ Ran("find_packages") => package_version # Unset
    /\ Ran("get_requirements") => (ext_modules # UnsetModules /\ globCalls = 2)
    /\ Ran("setup") => install_requires # UnsetList
    /\ FailedIn("find_version")
           => (nvccCalls = 0 /\ globCalls = 0 /\ stack = <<>>)
    /\ FailedIn("get_nvcc_cuda_version") => (globCalls = 0 /\ stack = <<>>)
    /\ stack # <<>> => (Ran("get_requirements") /\ ~Ran("setup"))

\* the version literal is missing: the run has failed and nvcc was not run
C9_Witness ==
    /\ FailedIn("find_version")
    /\ error = "RuntimeError"
    /\ nvccCalls = 0
    /\ setupCalls = 0

(***************************************************************************)
(* get_extensions.                                                         *)
(***************************************************************************)
CppSuffix == <<".", "c", "p", "p">>

CuSuffix == <<".", "c", "u">>

\* name is a visible file whose name ends with the suffix
HasSuffix(name, suffix) ==
    /\ Len(name) >= Len(suffix)
    /\ name[1] # "."
    /\ \A i \in 1..Len(suffix) : name[Len(name) - Len(suffix) + i] = suffix[i]

Entries == IF env.csrcDir = NoDir THEN <<>> ELSE env.csrcDir

\* the positions of the listing that the pattern matches
Matching(suffix) == {k \in 1..Len(Entries) : HasSuffix(Entries[k], suffix)}

\* C8: get_extensions never fails because of what the glob finds; it
\* returns one descriptor, flute._C, whose sources are all *.cpp matches of
\* the csrc directory followed by all *.cu matches; with no match the list
\* is empty and no error is raised.
C8_Sources ==
    JustRan("get_extensions")
    => /\ ~FailedIn("get_extensions")
       /\ Len(ext_modules) = 1
       /\ ext_modules[1].name = <<"f", "l", "u", "t", "e", ".", "_", "C">>
       /\ LET src == ext_modules[1].sources
              nCpp == Cardinality(Matching(CppSuffix))
              nCu  == Cardinality(Matching(CuSuffix))
          IN  /\ Len(src) = nCpp + nCu
              /\ \A i \in 1..nCpp :
                     src[i] = extensions_dir \o Entries[Nth(Matching(CppSuffix), i)]
              /\ \A i \in 1..nCu :
                     src[nCpp + i] = extensions_dir \o Entries[Nth(Matching(CuSuffix), i)]
              /\ (nCpp + nCu = 0) => src = <<>>

\* an empty csrc directory: a descriptor without sources, and the run goes on
C8_Witness ==
    /\ Ran("get_extensions")
    /\ env.csrcDir = <<>>
    /\ ext_modules[1].sources = <<>>
    /\ pc = "get_requirements"

(***************************************************************************)
(* get_requirements.                                                       *)
(***************************************************************************)
\* the lines of a requirements file: those of its text without the
\* whitespace around it
LinesOfFile(fs, f) == LinesOf(Trimmed(fs[f]))

\* a line that starts with -r and a space
IsDirective(l) == Len(l) >= 3 /\ l[1] = "-" /\ l[2] = "r" /\ l[3] = " "

\* a directive names the file of its second word
NamesFile(l) == Len(Words(l)) >= 2

Named(l) == Words(l)[2]

\* the files the directives of f name
Includes(fs, f) ==
    {Named(LinesOfFile(fs, f)[k]) :
         k \in {j \in 1..Len(LinesOfFile(fs, f)) :
                    /\ IsDirective(LinesOfFile(fs, f)[j])
                    /\ NamesFile(LinesOfFile(fs, f)[j])}}

\* the files reachable from the files of S through directives
RECURSIVE Closure(_, _)
Closure(fs, S) ==
    LET T == S \cup UNION {Includes(fs, f) \cap DOMAIN fs : f \in S}
    IN  IF T = S THEN S ELSE Closure(fs, T)

Reachable(fs) == Closure(fs, {RequirementsTxt})

\* a file reachable from requirements.txt is reachable from itself
Cyclic(fs) ==
    \E f \in Reachable(fs) : f \in Closure(fs, Includes(fs, f) \cap DOMAIN fs)

\* every directive of every reachable file names a file that exists
AllIncludesExist(fs) ==
    \A f \in Reachable(fs) :
        \A k \in 1..Len(LinesOfFile(fs, f)) :
            IsDirective(LinesOfFile(fs, f)[k])
            => /\ NamesFile(LinesOfFile(fs, f)[k])
               /\ Named(LinesOfFile(fs, f)[k]) \in DOMAIN fs

\* the in-order flattening of file f: each directive replaced, at its
\* position, by the flattening of the file it names
RECURSIVE Flatten(_, _)
RECURSIVE FlattenLines(_, _)
Flatten(fs, f) == FlattenLines(fs, LinesOfFile(fs, f))

FlattenLines(fs, ls) ==
    IF ls = <<>> THEN <<>>
    ELSE (IF IsDirective(ls[1]) THEN Flatten(fs, Named(ls[1])) ELSE <<ls[1]>>)
         \o FlattenLines(fs, Tail(ls))

\* get_requirements is over: it returned or it raised
Returned == install_requires # UnsetList

RequirementsOver == Returned \/ FailedIn("get_requirements")

\* C1, as stated: for every set of requirements files whose includes form
\* no cycle, get_requirements returns the in-order flattening of
\* requirements.txt.
C1_FlatteningAsStated ==
    (RequirementsOver /\ ~Cyclic(env.files))
    => /\ Returned
       /\ install_requires = Flatten(env.files, RequirementsTxt)

\* C1, amended: for every set of requirements files whose includes form no
\* cycle and in which every line that starts with -r and a space names a
\* file that exists, get_requirements returns the in-order flattening of
\* requirements.txt; no directive line is in the result and repeated
\* entries are all kept.
C1_Flattening ==
    (RequirementsOver /\ ~Cyclic(env.files) /\ AllIncludesExist(env.files))
    => /\ Returned
       /\ install_requires = Flatten(env.files, RequirementsTxt)
       /\ \A i \in 1..Len(install_requires) : ~IsDirective(install_requires[i])

\* requirements.txt includes a, which includes b, and an entry occurs twice
C1_Witness ==
    /\ Returned
    /\ {<<"a">>, <<"b">>} \subseteq Reachable(env.files)
    /\ \E i, j \in 1..Len(install_requires) :
           i < j /\ install_requires[i] = install_requires[j]

\* C2, as stated: the loader returns a list if and only if the files
\* reachable from requirements.txt contain no cycle.
C2_ReturnsIffAcyclicAsStated ==
    RequirementsOver => (Returned <=> ~Cyclic(env.files))

\* C2, amended: the loader returns a list if and only if the files
\* reachable from requirements.txt contain no cycle and every directive in
\* them names a file that exists; with a cycle it never returns a list
\* and setup is never reached.
C2_ReturnsIffAcyclic ==
    /\ RequirementsOver
           => (Returned <=> (~Cyclic(env.files) /\ AllIncludesExist(env.files)))
    /\ (Returned \/ setupCalls > 0 \/ pc \in {"setup", "done"})
           => ~Cyclic(env.files)

\* two files include each other: the recursion re-entered them until the
\* interpreter stopped it
C2_Witness ==
    /\ FailedIn("get_requirements")
    /\ error = "RecursionError"
    /\ \E i, j \in 1..Len(stack) :
           /\ i + 1 < j
           /\ stack[i].filename = stack[j].filename
           /\ stack[i].filename # stack[i + 1].filename

\* C10: for a requirements file with no directive the list has one entry
\* per line of the content without its leading and trailing whitespace; it
\* is never empty: an empty or whitespace-only file gives one empty string,
\* and blank lines inside the file are kept.
C10_OneEntryPerLine ==
    (RequirementsOver
        /\ \A k \in 1..Len(LinesOfFile(env.files, RequirementsTxt)) :
               ~IsDirective(LinesOfFile(env.files, RequirementsTxt)[k]))
    => /\ Returned
       /\ install_requires = LinesOfFile(env.files, RequirementsTxt)
       /\ Len(install_requires) >= 1
       /\ Visible(env.files[RequirementsTxt]) = {}
              => install_requires = << <<>> >>

\* a whitespace-only requirements.txt: the list holds one empty string
C10_Witness ==
    /\ Returned
    /\ Visible(env.files[RequirementsTxt]) = {}
    /\ install_requires = << <<>> >>

====
